---------------------------- MODULE Spec2Model ----------------------------
(***************************************************************************)
(* Model of the ECG diagnostic report pipeline of src/MetadataExtractor.py *)
(* (the Streamlit application that follows the OCR class in that file).    *)
(*                                                                         *)
(* Conventions                                                             *)
(*  - A Python string that the code parses or formats (Heart Rate,         *)
(*    QT_interval) is a sequence of one-character strings; a string that   *)
(*    the code only compares or copies is a TLA+ string.                   *)
(*  - A dict is a function on its keys, so report["Heart Rate"] reads as   *)
(*    in the source and a missing key is a key outside DOMAIN.             *)
(*  - Real numbers are fixed point: a signal sample counts twentieths,     *)
(*    a median and the ST level count fortieths (the median of an even     *)
(*    window is the mean of two samples), a probability and the            *)
(*    confidence count hundredths.  Rounding of float64 is not modelled.   *)
(***************************************************************************)
EXTENDS Integers, Sequences, FiniteSets, TLC

VARIABLES
    pc,             \* position of main / process_ecg_image, or of a direct call
    image,          \* the uploaded image (tmp_filename), "none" before upload
    model_out,      \* what model.predict answers for this image
    noise,          \* the value np.random.normal(0, 0.02) draws, hundredths
    processed_data, \* process_ecg_image: the derived signal
    pred,           \* process_ecg_image: the class-probability vector
    label,          \* process_ecg_image: the predicted label
    confidence,     \* process_ecg_image: calibrated confidence, hundredths
    st_analysis,    \* process_ecg_image: result of analyze_st_segment
    st_seg,         \* process_ecg_image: ST segment state
    mi_type,        \* process_ecg_image: infarction territory
    report,         \* the report dict (NoReport before it is created)
    shown,          \* what main has written to the page, in order
    confidences,    \* main: the vector plotted in the bar chart
    document,       \* what generate_pdf_report has written (NoDocument before)
    warn_writes,    \* history: stores to report["Validation Warnings"] after creation
    infer_calls,    \* history: calls of infer_mi_type made by process_ecg_image
    predict_calls,  \* history: calls of model.predict in this run
    arg,            \* argument of a direct call of one function
    ret             \* result of that call

vars == <<pc, image, model_out, noise, processed_data, pred, label, confidence,
          st_analysis, st_seg, mi_type, report, shown, confidences, document,
          warn_writes, infer_calls, predict_calls, arg, ret>>

pipeline_vars == <<image, model_out, noise, processed_data, pred, label,
                   confidence, st_analysis, st_seg, mi_type, report, shown,
                   confidences, document, warn_writes, infer_calls,
                   predict_calls>>

-----------------------------------------------------------------------------
(* Bounds of the model.                                                    *)

\* Largest sample value of a generated signal, in twentieths.
MaxSample == 3
\* Hand-built heart-rate strings: "<n> BPM" for n in 0..MaxRate ...
MaxRate == 120
\* ... and every string over HRAlphabet of at most MaxStrLen characters.
MaxStrLen == 3
\* Longest hand-built leads_affected list.
MaxLeads == 4
\* Most leads in the "Affected Leads" of a hand-built report to render.
MaxAffected == 2
\* Most runs of process_ecg_image whose reports are kept side by side.
MaxRuns == 3
\* Longest OCR text handed to the clean-up of extract_metadata.
MaxTextLen == 4
\* Most points one run of the stream loop generates.
MaxIterations == 603

-----------------------------------------------------------------------------
(* Sequence helpers.                                                       *)

Range(s) == {s[i] : i \in DOMAIN s}

Min2(a, b) == IF a <= b THEN a ELSE b

Max2(a, b) == IF a >= b THEN a ELSE b

\* Python s[a:b] for 0 <= a <= b: 0-based, end exclusive, clamped to len(s).
Slice(s, a, b) == SubSeq(s, a + 1, Min2(b, Len(s)))

\* All sequences over S of length at most n.
RECURSIVE SeqsUpTo(_, _)
SeqsUpTo(S, n) ==
    IF n = 0 THEN {<<>>}
    ELSE LET shorter == SeqsUpTo(S, n - 1)
         IN  shorter \cup {Append(s, x) : s \in shorter, x \in S}

-----------------------------------------------------------------------------
(* Python text: str.split(), int(str) and integer formatting.              *)

Digits == <<"0", "1", "2", "3", "4", "5", "6", "7", "8", "9">>

IsDigit(c) == \E i \in DOMAIN Digits : Digits[i] = c

DigitValue(c) == (CHOOSE i \in DOMAIN Digits : Digits[i] = c) - 1

\* The characters str.split() separates on (the model's strings hold no
\* other whitespace than these).
IsSpace(c) == c \in {" ", "\t", "\n"}

\* str.split() without arguments: the maximal runs of non-whitespace.
RECURSIVE SplitFrom(_, _, _)
SplitFrom(s, i, cur) ==
    IF i > Len(s)
    THEN IF cur = <<>> THEN <<>> ELSE <<cur>>
    ELSE IF IsSpace(s[i])
         THEN IF cur = <<>>
              THEN SplitFrom(s, i + 1, <<>>)
              ELSE <<cur>> \o SplitFrom(s, i + 1, <<>>)
         ELSE SplitFrom(s, i + 1, Append(cur, s[i]))

split(s) == SplitFrom(s, 1, <<>>)

\* The digits part of an int() literal: digits, with single underscores
\* allowed between two digits.
IsDigitBody(b) ==
    /\ b # <<>>
    /\ IsDigit(b[1])
    /\ IsDigit(b[Len(b)])
    /\ \A i \in DOMAIN b : IsDigit(b[i]) \/ b[i] = "_"
    /\ \A i \in 1..(Len(b) - 1) : ~(b[i] = "_" /\ b[i + 1] = "_")

HasSign(t) == t # <<>> /\ t[1] \in {"+", "-"}

Unsigned(t) == IF HasSign(t) THEN Tail(t) ELSE t

\* Whether int(t) succeeds for a token t (a token holds no whitespace).
IsIntLiteral(t) == IsDigitBody(Unsigned(t))

RECURSIVE DigitsValue(_, _)
DigitsValue(b, acc) ==
    IF b = <<>> THEN acc
    ELSE IF Head(b) = "_" THEN DigitsValue(Tail(b), acc)
         ELSE DigitsValue(Tail(b), 10 * acc + DigitValue(Head(b)))

\* int(t) for a token with IsIntLiteral(t).
IntOf(t) ==
    LET v == DigitsValue(Unsigned(t), 0)
    IN  IF HasSign(t) /\ t[1] = "-" THEN 0 - v ELSE v

\* str(n), the decimal digits of an integer.
RECURSIVE NatToStr(_)
NatToStr(n) ==
    IF n < 10 THEN <<Digits[n + 1]>>
    ELSE Append(NatToStr(n \div 10), Digits[(n % 10) + 1])

IntToStr(n) == IF n < 0 THEN <<"-">> \o NatToStr(0 - n) ELSE NatToStr(n)

\* f"{n} BPM"
FormatBPM(n) == IntToStr(n) \o <<" ", "B", "P", "M">>

-----------------------------------------------------------------------------
(* Clinical configuration: the static tables.                              *)

\* _MI_TYPES in its insertion order (the order .items() iterates in).
_MI_TYPES == <<
    [name |-> "Anterior",          leads |-> <<"V2", "V3", "V4">>],
    [name |-> "Inferior",          leads |-> <<"II", "III", "aVF">>],
    [name |-> "Lateral",           leads |-> <<"I", "aVL", "V5", "V6">>],
    [name |-> "Posterior",         leads |-> <<"V1", "V2">>],
    [name |-> "Right Ventricular", leads |-> <<"V1", "V4R">>] >>

\* _CLASS_LABELS: index k of the probability vector is _CLASS_LABELS[k + 1].
_CLASS_LABELS == <<"Normal", "ST Depression", "Myocardial Infarction",
                   "ST Elevation", "Other Abnormalities">>

\* _LEADS_ALL: the keys of _LEAD_ANALYSIS in insertion order.
_LEADS_ALL == <<"I", "II", "III", "aVR", "aVL", "aVF",
                "V1", "V2", "V3", "V4", "V5", "V6">>

\* _LEAD_ANALYSIS[lead]
_LEAD_ANALYSIS(lead) ==
    CASE lead \in {"I", "II"} ->
            [amplitude |-> "0.5-1.7 mV", duration |-> "<= 120 ms"]
      [] lead \in {"III", "aVR", "aVL", "aVF"} ->
            [amplitude |-> "0.1-0.5 mV", duration |-> "<= 120 ms"]
      [] lead \in {"V1", "V2"} ->
            [amplitude |-> "<= 0.3 mV", duration |-> "<= 110 ms"]
      [] lead = "V3" ->
            [amplitude |-> "0.3-1.5 mV", duration |-> "<= 110 ms"]
      [] lead = "V4" ->
            [amplitude |-> "0.5-2.5 mV", duration |-> "<= 110 ms"]
      [] lead \in {"V5", "V6"} ->
            [amplitude |-> "0.5-2.5 mV", duration |-> "<= 120 ms"]

BradycardiaWarning == "Bradycardia detected (<60 BPM)"

TachycardiaWarning == "Tachycardia detected (>100 BPM)"

IrregularWarning == "Irregular rhythm requires further investigation"

MIWarning == "MI diagnosis without ST elevation - consider alternative diagnoses"

-----------------------------------------------------------------------------
(* analyze_st_segment                                                      *)

\* Length of the derived signal (np.linspace(0, 1, 187)).
SignalLength == 187

\* Approximate QRS end index.
qrs_end == 100

\* Width of the ST segment region, signal[qrs_end:qrs_end + 20].
STWindowLen == 20

\* Width of the baseline region, signal[:50].
BaselineLen == 50

\* The thresholds 0.1 and -0.1, in fortieths.
STThreshold == 4

RECURSIVE InsertSorted(_, _)
InsertSorted(x, s) ==
    IF s = <<>> THEN <<x>>
    ELSE IF x <= Head(s) THEN <<x>> \o s
         ELSE <<Head(s)>> \o InsertSorted(x, Tail(s))

RECURSIVE Sorted(_)
Sorted(s) == IF s = <<>> THEN <<>> ELSE InsertSorted(Head(s), Sorted(Tail(s)))

\* np.median of a non-empty window of samples (twentieths), in fortieths:
\* the middle element of the sorted window, or the mean of the two middle
\* elements when the window has an even length.
median(a) ==
    LET srt == Sorted(a)
        n   == Len(a)
    IN  IF n % 2 = 1
        THEN 2 * srt[(n \div 2) + 1]
        ELSE srt[n \div 2] + srt[(n \div 2) + 1]

\* Mutant of analyze_st_segment: the depression test compares with +0.1.
analyze_st_segment_Sign(signal) ==
    LET st_segment == Slice(signal, qrs_end, qrs_end + STWindowLen)
        baseline   == median(Slice(signal, 0, BaselineLen))
        st_level   == median(st_segment) - baseline
    IN  [elevation      |-> st_level > STThreshold,
         depression     |-> st_level < STThreshold,
         level          |-> st_level,
         leads_affected |-> <<"II">>]

\* Mutant of analyze_st_segment: the ST window starts one sample late.
analyze_st_segment_Shifted(signal) ==
    LET st_segment == Slice(signal, qrs_end + 1, qrs_end + 1 + STWindowLen)
        baseline   == median(Slice(signal, 0, BaselineLen))
        st_level   == median(st_segment) - baseline
    IN  [elevation      |-> st_level > STThreshold,
         depression     |-> st_level < 0 - STThreshold,
         level          |-> st_level,
         leads_affected |-> <<"II">>]

\* Mutant of analyze_st_segment: the inferior leads are reported.
analyze_st_segment_InferiorLeads(signal) ==
    LET st_segment == Slice(signal, qrs_end, qrs_end + STWindowLen)
        baseline   == median(Slice(signal, 0, BaselineLen))
        st_level   == median(st_segment) - baseline
    IN  [elevation      |-> st_level > STThreshold,
         depression     |-> st_level < 0 - STThreshold,
         level          |-> st_level,
         leads_affected |-> <<"II", "III", "aVF">>]

analyze_st_segment(signal) ==
    LET st_segment == Slice(signal, qrs_end, qrs_end + STWindowLen)
        baseline   == median(Slice(signal, 0, BaselineLen))
        st_level   == median(st_segment) - baseline
    IN  [elevation      |-> st_level > STThreshold,
         depression     |-> st_level < 0 - STThreshold,
         level          |-> st_level,
         leads_affected |-> <<"II">>]

\* A signal of SignalLength samples with the value v0 before index b1,
\* v1 from b1 to before b2 and v2 from b2 on (0-based indices).
StepSignal(b1, b2, v0, v1, v2) ==
    [i \in 1..SignalLength |->
        IF i - 1 < b1 THEN v0 ELSE IF i - 1 < b2 THEN v1 ELSE v2]

-----------------------------------------------------------------------------
(* infer_mi_type                                                           *)

\* Mutant of InferFrom: any() in place of all(), one lead of a territory
\* is enough.
RECURSIVE InferFrom_Any(_, _)
InferFrom_Any(affected_leads, i) ==
    IF i > Len(_MI_TYPES) THEN "Undetermined Type"
    ELSE IF \E k \in DOMAIN _MI_TYPES[i].leads :
                \E j \in DOMAIN affected_leads :
                    affected_leads[j] = _MI_TYPES[i].leads[k]
         THEN _MI_TYPES[i].name
         ELSE InferFrom_Any(affected_leads, i + 1)

\* The loop over _MI_TYPES.items() from entry i on.
RECURSIVE InferFrom(_, _)
InferFrom(affected_leads, i) ==
    IF i > Len(_MI_TYPES) THEN "Undetermined Type"
    ELSE IF \A k \in DOMAIN _MI_TYPES[i].leads :
                \E j \in DOMAIN affected_leads :
                    affected_leads[j] = _MI_TYPES[i].leads[k]
         THEN _MI_TYPES[i].name
         ELSE InferFrom(affected_leads, i + 1)

infer_mi_type(analysis) == InferFrom(analysis.leads_affected, 1)

-----------------------------------------------------------------------------
(* validate_parameters                                                     *)

\* Line 172, int(report["Heart Rate"].split()[0]): the integer, or the
\* exception the expression raises.
HeartRateTry(rep) ==
    IF "Heart Rate" \notin DOMAIN rep
    THEN [ok |-> FALSE, exc |-> "KeyError"]
    ELSE LET tokens == split(rep["Heart Rate"])
         IN  IF tokens = <<>>
             THEN [ok |-> FALSE, exc |-> "IndexError"]
             ELSE IF IsIntLiteral(tokens[1])
                  THEN [ok |-> TRUE, value |-> IntOf(tokens[1])]
                  ELSE [ok |-> FALSE, exc |-> "ValueError"]

\* Mutant of ExceptClauseCatches: "except ValueError".
ExceptClauseCatches_ValueError(exc) == exc = "ValueError"

\* Line 173, "except Exception": the exceptions the handler catches.
ExceptClauseCatches(exc) == exc \in {"KeyError", "IndexError", "ValueError"}

\* hr after the try statement (when no exception escapes it).
ParsedHeartRate(rep) ==
    LET try == HeartRateTry(rep)
    IN  IF try.ok THEN try.value ELSE 0

\* Whether validate_parameters(rep) ends in an exception: one that escapes
\* the try statement, or the KeyError of a subscript on lines 179-181
\* ("and" reads report["ST Segment"] only for a Myocardial Infarction).
validate_raises(rep) ==
    \/ LET try == HeartRateTry(rep)
       IN  ~try.ok /\ ~ExceptClauseCatches(try.exc)
    \/ "Heart Rhythm" \notin DOMAIN rep
    \/ "Diagnosis" \notin DOMAIN rep
    \/ /\ rep["Diagnosis"] = "Myocardial Infarction"
       /\ "ST Segment" \notin DOMAIN rep

\* Mutant of RateWarnings: the boundaries 60 and 100 count as abnormal.
RateWarnings_Inclusive(hr, warnings) ==
    IF hr <= 60 THEN Append(warnings, BradycardiaWarning)
    ELSE IF hr >= 100 THEN Append(warnings, TachycardiaWarning)
         ELSE warnings

\* The heart-rate statement, lines 175-178.
RateWarnings(hr, warnings) ==
    IF hr < 60 THEN Append(warnings, BradycardiaWarning)
    ELSE IF hr > 100 THEN Append(warnings, TachycardiaWarning)
         ELSE warnings

\* Mutant of RhythmWarnings: the rhythm rule is skipped once a rate rule
\* has fired (an "elif" in place of the "if").
RhythmWarnings_Elif(rep, warnings) ==
    IF warnings = <<>> /\ rep["Heart Rhythm"] = "Irregular"
    THEN Append(warnings, IrregularWarning)
    ELSE warnings

\* The rhythm statement, lines 179-180.
RhythmWarnings(rep, warnings) ==
    IF rep["Heart Rhythm"] = "Irregular"
    THEN Append(warnings, IrregularWarning)
    ELSE warnings

\* Mutant of InfarctionWarnings: only a Normal ST segment is reported.
InfarctionWarnings_NormalOnly(rep, warnings) ==
    IF rep["Diagnosis"] = "Myocardial Infarction"
       /\ rep["ST Segment"] = "Normal"
    THEN Append(warnings, MIWarning)
    ELSE warnings

\* The infarction statement, lines 181-182.
InfarctionWarnings(rep, warnings) ==
    IF rep["Diagnosis"] = "Myocardial Infarction"
       /\ rep["ST Segment"] # "Elevation"
    THEN Append(warnings, MIWarning)
    ELSE warnings

\* The list validate_parameters(rep) returns when it does not raise.
validate_parameters(rep) ==
    InfarctionWarnings(rep,
        RhythmWarnings(rep,
            RateWarnings(ParsedHeartRate(rep), <<>>)))

-----------------------------------------------------------------------------
(* generate_pdf_report                                                     *)

\* f"{c*100:.1f}%" for a confidence c that counts whole hundredths.
FormatPercent(c) == IntToStr(c) \o <<".", "0", "%">>

\* Section I: the rows of overall_items.
OverallItems(rep) == <<
    <<"Heart Rate", rep["Heart Rate"]>>,
    <<"RR Interval", rep["RR Interval"]>>,
    <<"Heart Rhythm", rep["Heart Rhythm"]>>,
    <<"Cardiac Axis", rep["Cardiac Axis"]>>,
    <<"ST Segment", rep["ST Segment"]>>,
    <<"Diagnosis", rep["Diagnosis"]>>,
    <<"MI Type", rep["MI Type"]>>,
    <<"Interpretation Accuracy", FormatPercent(rep["Confidence"])>> >>

\* Section II: the rows of lead_ii_items.
LeadIIItems(lii) == <<
    <<"P wave Amp", lii["P_wave_amp"]>>,
    <<"P wave Dur", lii["P_wave_dur"]>>,
    <<"QRS Amp", lii["QRS_amp"]>>,
    <<"QRS Dur", lii["QRS_dur"]>>,
    <<"T wave Amp", lii["T_wave_amp"]>>,
    <<"T wave Dur", lii["T_wave_dur"]>>,
    <<"PR interval", lii["PR_interval"]>>,
    <<"QT interval", lii["QT_interval"]>>,
    <<"QTc interval", lii["QTc_interval"]>>,
    <<"ST segment", lii["ST_segment_lead_II"]>> >>

\* Mutant of LeadRows: one row per lead of _LEADS_ALL and one more for each
\* affected lead that is not among them.
LeadRows_ExtraRows(rep) ==
    LET qt_ms        == IntOf(split(rep["Lead II Detail"]["QT_interval"])[1])
        affected_set == Range(rep["Affected Leads"])
        extra        == SelectSeq(rep["Affected Leads"],
                                  LAMBDA l : l \notin Range(_LEADS_ALL))
    IN  [i \in DOMAIN _LEADS_ALL |->
            LET lead == _LEADS_ALL[i]
            IN  <<lead,
                  _LEAD_ANALYSIS(lead).amplitude,
                  _LEAD_ANALYSIS(lead).duration,
                  IF lead \in affected_set THEN "Abnormal" ELSE "Normal",
                  IntToStr(qt_ms)>>]
        \o [i \in DOMAIN extra |->
               <<extra[i], "", "", "Abnormal", IntToStr(qt_ms)>>]

\* Section III: one row per lead of _LEADS_ALL.
LeadRows(rep) ==
    LET qt_ms        == IntOf(split(rep["Lead II Detail"]["QT_interval"])[1])
        affected_set == Range(rep["Affected Leads"])
    IN  [i \in DOMAIN _LEADS_ALL |->
            LET lead == _LEADS_ALL[i]
            IN  <<lead,
                  _LEAD_ANALYSIS(lead).amplitude,
                  _LEAD_ANALYSIS(lead).duration,
                  IF lead \in affected_set THEN "Abnormal" ELSE "Normal",
                  IntToStr(qt_ms)>>]

\* Mutant of WarningsBlock: only the first warning is printed.
WarningsBlock_FirstOnly(rep) ==
    IF rep["Validation Warnings"] # <<>>
    THEN [present |-> TRUE,
          heading |-> "Clinical Validation Notes:",
          lines   |-> <<<<"- ", rep["Validation Warnings"][1]>>>>]
    ELSE [present |-> FALSE]

\* The trailing block: f"- {w}" for each warning, as the pair of the
\* prefix and the warning text.
WarningsBlock(rep) ==
    IF rep["Validation Warnings"] # <<>>
    THEN [present |-> TRUE,
          heading |-> "Clinical Validation Notes:",
          lines   |-> [i \in DOMAIN rep["Validation Warnings"] |->
                          <<"- ", rep["Validation Warnings"][i]>>]]
    ELSE [present |-> FALSE]

\* The cells generate_pdf_report writes, in order.
generate_pdf_report(rep) ==
    [title    |-> "ECG Analysis Report",
     sections |-> <<
        [heading |-> "I. Overall Assessment",
         columns |-> <<"Parameter", "Value">>,
         rows    |-> OverallItems(rep)],
        [heading |-> "II. Detailed Lead II Analysis",
         columns |-> <<"Wave/Interval", "Measurement">>,
         rows    |-> LeadIIItems(rep["Lead II Detail"])],
        [heading |-> "III. Lead-Wise Analysis Summary",
         columns |-> <<"Lead", "Amplitude (mV)", "Duration (ms)",
                       "Morphology", "QT (ms)">>,
         rows    |-> LeadRows(rep)] >>,
     notes    |-> WarningsBlock(rep)]

-----------------------------------------------------------------------------
(* Values of the variables outside a pipeline run or a direct call.        *)

NoReport == [absent |-> TRUE]

NoDocument == [absent |-> TRUE]

NoAnalysis == [absent |-> TRUE]

NoResult == [pending |-> TRUE]

PipelineIdle ==
    /\ image = "none"
    /\ model_out = <<>>
    /\ noise = 0
    /\ processed_data = <<>>
    /\ pred = <<>>
    /\ label = "none"
    /\ confidence = 0
    /\ st_analysis = NoAnalysis
    /\ st_seg = "none"
    /\ mi_type = "none"
    /\ report = NoReport
    /\ shown = <<>>
    /\ confidences = <<>>
    /\ document = NoDocument
    /\ warn_writes = 0
    /\ infer_calls = 0
    /\ predict_calls = 0

-----------------------------------------------------------------------------
(* The pipeline: main and process_ecg_image, one action per step.          *)

\* The uploaded images.  An image is known by the signal that
\* preprocess_ecg_image derives from it; "corrupt" cannot be decoded.
Images == {"flat", "elevated", "depressed", "corrupt"}

\* preprocess_ecg_image(image_path) for a decodable image.
preprocess_ecg_image(img) ==
    CASE img = "flat"      -> StepSignal(0, 0, 1, 1, 1)
      [] img = "elevated"  -> StepSignal(60, 187, 0, 3, 3)
      [] img = "depressed" -> StepSignal(60, 187, 3, 0, 0)

\* Values of one entry of a probability vector, in hundredths.
ProbValues == {0, 50, 100}

RECURSIVE SumSeq(_)
SumSeq(v) == IF v = <<>> THEN 0 ELSE Head(v) + SumSeq(Tail(v))

\* What the classifier may answer: vectors of 5 entries that sum to 1, and
\* malformed answers, an empty vector and vectors with a sixth class of
\* positive probability.
PredVectors ==
    {<<>>}
        \cup {v \in [1..5 -> ProbValues] : SumSeq(v) = 100}
        \cup {v \in [1..6 -> ProbValues] : SumSeq(v) = 100 /\ v[6] > 0}

\* Values np.random.normal(0, 0.02) may draw, in hundredths (the
\* distribution is unbounded).
NoiseDraws == {-60, 0, 2}

\* Values np.random.randint(50, 110) may draw: 110 is excluded.
HeartRateDraws == 50..109

\* Values np.random.uniform(0.6, 1.0) may draw, rounded to hundredths.
RRDraws == {60, 100}

\* Values str(uuid.uuid4())[:8] may take (the token is opaque: the code
\* only copies it).
PatientIdDraws == {"1b9d6bcd"}

\* f"{x:.2f} sec" for x given in hundredths.
FormatSeconds(h) ==
    IntToStr(h \div 100)
        \o <<".", Digits[((h \div 10) % 10) + 1], Digits[(h % 10) + 1]>>
        \o <<" ", "s", "e", "c">>

\* int(np.argmax(pred)) for a non-empty vector: the first index, 0-based,
\* of a largest entry.
argmax(v) ==
    (CHOOSE i \in DOMAIN v :
        /\ \A j \in DOMAIN v : v[j] <= v[i]
        /\ \A j \in 1..(i - 1) : v[j] < v[i]) - 1

\* _CLASS_LABELS.get(label_index, "Unknown")
ClassLabelGet(label_index) ==
    IF label_index + 1 \in DOMAIN _CLASS_LABELS
    THEN _CLASS_LABELS[label_index + 1]
    ELSE "Unknown"

\* Mutant of Clamp: the upper limit is missing.
Clamp_NoUpper(x) == Max2(0, x)

\* min(1.0, max(0.0, x)), in hundredths.
Clamp(x) == Min2(100, Max2(0, x))

\* The lead_ii_detail dict, lines 210-221.
LeadIIDetail(st) ==
    [P_wave_amp |-> "0.25 mV", P_wave_dur |-> "80 ms",
     QRS_amp |-> "1.8 mV", QRS_dur |-> "100 ms",
     T_wave_amp |-> "0.35 mV", T_wave_dur |-> "160 ms",
     PR_interval |-> "160 ms",
     QT_interval |-> <<"4", "0", "0", " ", "m", "s">>,
     QTc_interval |-> "430 ms",
     ST_segment_lead_II |-> st]

\* The report dict literal, lines 223-236.
NewReport(id, hr, rr, regular) ==
    ("Patient ID" :> id)
    @@ ("Heart Rate" :> FormatBPM(hr))
    @@ ("RR Interval" :> FormatSeconds(rr))
    @@ ("Heart Rhythm" :> IF regular THEN "Regular" ELSE "Irregular")
    @@ ("Cardiac Axis" :> "Normal Axis")
    @@ ("ST Segment" :> st_seg)
    @@ ("Diagnosis" :> label)
    @@ ("MI Type" :> mi_type)
    @@ ("Confidence" :> confidence)
    @@ ("Validation Warnings" :> <<>>)
    @@ ("Affected Leads" :> st_analysis.leads_affected)
    @@ ("Lead II Detail" :> LeadIIDetail(st_seg))

Init ==
    /\ pc = "idle"
    /\ arg = <<>>
    /\ ret = NoResult
    /\ PipelineIdle

\* main, lines 352-356: a file is uploaded and written to a temporary file.
\* model_out is the answer of the loaded model for this image.
Upload ==
    /\ pc = "idle"
    /\ \E img \in Images, out \in PredVectors :
           /\ image' = img
           /\ model_out' = out
    /\ pc' = "preprocess"
    /\ UNCHANGED <<noise, processed_data, pred, label, confidence,
                   st_analysis, st_seg, mi_type, report, shown, confidences,
                   document, warn_writes, infer_calls, predict_calls, arg, ret>>

\* Line 188.  An image that cannot be decoded raises, which ends the run.
Preprocess ==
    /\ pc = "preprocess"
    /\ \/ /\ image = "corrupt"
          /\ pc' = "aborted"
          /\ UNCHANGED processed_data
       \/ /\ image # "corrupt"
          /\ processed_data' = preprocess_ecg_image(image)
          /\ pc' = "predict"
    /\ UNCHANGED <<image, model_out, noise, pred, label, confidence,
                   st_analysis, st_seg, mi_type, report, shown, confidences,
                   document, warn_writes, infer_calls, predict_calls, arg, ret>>

\* Line 189, model.predict(processed_data)[0]: the call raises, which ends
\* the run, or answers.
Predict ==
    /\ pc = "predict"
    /\ predict_calls' = predict_calls + 1
    /\ \/ /\ pc' = "aborted"
          /\ UNCHANGED pred
       \/ /\ pred' = model_out
          /\ pc' = "label"
    /\ UNCHANGED <<image, model_out, noise, processed_data, label, confidence,
                   st_analysis, st_seg, mi_type, report, shown, confidences,
                   document, warn_writes, infer_calls, arg, ret>>

\* Lines 190-195.  np.argmax of an empty vector raises, which ends the run.
LabelAndCalibrate ==
    /\ pc = "label"
    /\ \/ /\ pred = <<>>
          /\ pc' = "aborted"
          /\ UNCHANGED <<label, confidence, noise>>
       \/ /\ pred # <<>>
          /\ LET label_index == argmax(pred)
             IN  /\ label' = ClassLabelGet(label_index)
                 /\ \E z \in NoiseDraws :
                        /\ noise' = z
                        /\ confidence' = Clamp(pred[label_index + 1] + z)
          /\ pc' = "analyze"
    /\ UNCHANGED <<image, model_out, processed_data, pred, st_analysis,
                   st_seg, mi_type, report, shown, confidences, document,
                   warn_writes, infer_calls, predict_calls, arg, ret>>

\* Line 197.
Analyze ==
    /\ pc = "analyze"
    /\ st_analysis' = analyze_st_segment(processed_data)
    /\ pc' = "branch"
    /\ UNCHANGED <<image, model_out, noise, processed_data, pred, label,
                   confidence, st_seg, mi_type, report, shown, confidences,
                   document, warn_writes, infer_calls, predict_calls, arg, ret>>

\* Mutant of Branch: the territory is inferred for an ST Depression too.
Branch_InfersForDepression ==
    /\ pc = "branch"
    /\ \/ /\ label = "Myocardial Infarction"
          /\ st_seg' = "Elevation"
          /\ mi_type' = infer_mi_type(st_analysis)
          /\ infer_calls' = infer_calls + 1
       \/ /\ label # "Myocardial Infarction"
          /\ label = "ST Depression"
          /\ st_seg' = "Depression"
          /\ mi_type' = infer_mi_type(st_analysis)
          /\ infer_calls' = infer_calls + 1
       \/ /\ label # "Myocardial Infarction"
          /\ label # "ST Depression"
          /\ st_seg' = "Normal"
          /\ mi_type' = "N/A"
          /\ UNCHANGED infer_calls
    /\ pc' = "assemble"
    /\ UNCHANGED <<image, model_out, noise, processed_data, pred, label,
                   confidence, st_analysis, report, shown, confidences,
                   document, warn_writes, predict_calls, arg, ret>>

\* Mutant of Branch: the label "ST Elevation" gives the ST segment
\* "Elevation".
Branch_ElevationLabel ==
    /\ pc = "branch"
    /\ \/ /\ label = "Myocardial Infarction"
          /\ st_seg' = "Elevation"
          /\ mi_type' = infer_mi_type(st_analysis)
          /\ infer_calls' = infer_calls + 1
       \/ /\ label # "Myocardial Infarction"
          /\ label = "ST Depression"
          /\ st_seg' = "Depression"
          /\ mi_type' = "N/A"
          /\ UNCHANGED infer_calls
       \/ /\ label # "Myocardial Infarction"
          /\ label # "ST Depression"
          /\ st_seg' = IF label = "ST Elevation" THEN "Elevation" ELSE "Normal"
          /\ mi_type' = "N/A"
          /\ UNCHANGED infer_calls
    /\ pc' = "assemble"
    /\ UNCHANGED <<image, model_out, noise, processed_data, pred, label,
                   confidence, st_analysis, report, shown, confidences,
                   document, warn_writes, predict_calls, arg, ret>>

\* Mutant of Branch: the ST segment of an infarction comes from the
\* measured signal.
Branch_STFromSignal ==
    /\ pc = "branch"
    /\ \/ /\ label = "Myocardial Infarction"
          /\ st_seg' = IF st_analysis.elevation THEN "Elevation" ELSE "Normal"
          /\ mi_type' = infer_mi_type(st_analysis)
          /\ infer_calls' = infer_calls + 1
       \/ /\ label # "Myocardial Infarction"
          /\ label = "ST Depression"
          /\ st_seg' = "Depression"
          /\ mi_type' = "N/A"
          /\ UNCHANGED infer_calls
       \/ /\ label # "Myocardial Infarction"
          /\ label # "ST Depression"
          /\ st_seg' = "Normal"
          /\ mi_type' = "N/A"
          /\ UNCHANGED infer_calls
    /\ pc' = "assemble"
    /\ UNCHANGED <<image, model_out, noise, processed_data, pred, label,
                   confidence, st_analysis, report, shown, confidences,
                   document, warn_writes, predict_calls, arg, ret>>

\* Lines 199-207.
Branch ==
    /\ pc = "branch"
    /\ \/ /\ label = "Myocardial Infarction"
          /\ st_seg' = "Elevation"
          /\ mi_type' = infer_mi_type(st_analysis)
          /\ infer_calls' = infer_calls + 1
       \/ /\ label # "Myocardial Infarction"
          /\ label = "ST Depression"
          /\ st_seg' = "Depression"
          /\ mi_type' = "N/A"
          /\ UNCHANGED infer_calls
       \/ /\ label # "Myocardial Infarction"
          /\ label # "ST Depression"
          /\ st_seg' = "Normal"
          /\ mi_type' = "N/A"
          /\ UNCHANGED infer_calls
    /\ pc' = "assemble"
    /\ UNCHANGED <<image, model_out, noise, processed_data, pred, label,
                   confidence, st_analysis, report, shown, confidences,
                   document, warn_writes, predict_calls, arg, ret>>

\* Lines 210-236: the report is created, with an empty warnings list.
Assemble ==
    /\ pc = "assemble"
    /\ \E id \in PatientIdDraws, hr \in HeartRateDraws, rr \in RRDraws,
          regular \in BOOLEAN :
           report' = NewReport(id, hr, rr, regular)
    /\ pc' = "validate"
    /\ UNCHANGED <<image, model_out, noise, processed_data, pred, label,
                   confidence, st_analysis, st_seg, mi_type, shown,
                   confidences, document, warn_writes, infer_calls,
                   predict_calls, arg, ret>>

\* Line 238.  An exception of validate_parameters would end the run.
Validate ==
    /\ pc = "validate"
    /\ IF validate_raises(report)
       THEN /\ pc' = "aborted"
            /\ UNCHANGED <<report, warn_writes>>
       ELSE /\ report' = [report EXCEPT
                             !["Validation Warnings"] = validate_parameters(report)]
            /\ warn_writes' = warn_writes + 1
            /\ pc' = "return"
    /\ UNCHANGED <<image, model_out, noise, processed_data, pred, label,
                   confidence, st_analysis, st_seg, mi_type, shown,
                   confidences, document, infer_calls, predict_calls, arg, ret>>

\* Line 239 and line 358: process_ecg_image returns the report to main and
\* its other locals are gone.
Return ==
    /\ pc = "return"
    /\ pc' = "summary"
    /\ noise' = 0
    /\ processed_data' = <<>>
    /\ pred' = <<>>
    /\ label' = "none"
    /\ confidence' = 0
    /\ st_analysis' = NoAnalysis
    /\ st_seg' = "none"
    /\ mi_type' = "none"
    /\ UNCHANGED <<image, model_out, report, shown, confidences, document,
                   warn_writes, infer_calls, predict_calls, arg, ret>>

\* The st.warning calls of lines 364-367.
SummaryWarnings(rep) ==
    IF rep["Validation Warnings"] # <<>>
    THEN <<[call |-> "warning", text |-> <<"Validation Warnings:">>]>>
         \o [i \in DOMAIN rep["Validation Warnings"] |->
                [call |-> "warning",
                 text |-> <<"- ", rep["Validation Warnings"][i]>>]]
    ELSE <<>>

\* Lines 361-367: the summary on the page.
Summary ==
    /\ pc = "summary"
    /\ shown' = shown
         \o <<[call |-> "subheader", text |-> <<"Summary">>],
              [call |-> "write",
               text |-> <<"- **Diagnosis:** ", report["Diagnosis"]>>],
              [call |-> "write",
               text |-> <<"- **Interpretation Accuracy:** ",
                          FormatPercent(report["Confidence"])>>]>>
         \o SummaryWarnings(report)
    /\ pc' = "chart"
    /\ UNCHANGED <<image, model_out, noise, processed_data, pred, label,
                   confidence, st_analysis, st_seg, mi_type, report,
                   confidences, document, warn_writes, infer_calls,
                   predict_calls, arg, ret>>

\* Lines 370-375: the image is preprocessed and classified a second time
\* and the vector is plotted against the 5 class labels.  The call may
\* raise; a vector that has not 5 entries does not fit the labels, and the
\* plotting library then raises or draws, depending on its version.
Chart ==
    /\ pc = "chart"
    /\ predict_calls' = predict_calls + 1
    /\ \/ /\ pc' = "aborted"
          /\ UNCHANGED <<confidences, shown>>
       \/ /\ confidences' = model_out
          /\ Len(model_out) # Len(_CLASS_LABELS)
          /\ pc' = "aborted"
          /\ UNCHANGED shown
       \/ /\ confidences' = model_out
          /\ shown' = Append(shown, [call |-> "pyplot", x |-> _CLASS_LABELS,
                                     y |-> model_out])
          /\ pc' = "pdf"
    /\ UNCHANGED <<image, model_out, noise, processed_data, pred, label,
                   confidence, st_analysis, st_seg, mi_type, report,
                   document, warn_writes, infer_calls, arg, ret>>

\* Mutant of GeneratePdf: the renderer drains the warnings list while it
\* prints it.
GeneratePdf_DrainsWarnings ==
    /\ pc = "pdf"
    /\ document' = generate_pdf_report(report)
    /\ report' = [report EXCEPT !["Validation Warnings"] = <<>>]
    /\ shown' = Append(shown, [call |-> "download_button",
                               file_name |-> <<"ECG_Report_",
                                               report["Patient ID"], ".pdf">>])
    /\ pc' = "done"
    /\ UNCHANGED <<image, model_out, noise, processed_data, pred, label,
                   confidence, st_analysis, st_seg, mi_type,
                   confidences, warn_writes, infer_calls, predict_calls,
                   arg, ret>>

\* Lines 378-386: the PDF is generated and offered for download.
GeneratePdf ==
    /\ pc = "pdf"
    /\ document' = generate_pdf_report(report)
    /\ shown' = Append(shown, [call |-> "download_button",
                               file_name |-> <<"ECG_Report_",
                                               report["Patient ID"], ".pdf">>])
    /\ pc' = "done"
    /\ UNCHANGED <<image, model_out, noise, processed_data, pred, label,
                   confidence, st_analysis, st_seg, mi_type, report,
                   confidences, warn_writes, infer_calls, predict_calls,
                   arg, ret>>

\* Streamlit runs the script again for the next upload: nothing of a run
\* is kept.
Rerun ==
    /\ pc \in {"done", "aborted"}
    /\ pc' = "idle"
    /\ image' = "none"
    /\ model_out' = <<>>
    /\ noise' = 0
    /\ processed_data' = <<>>
    /\ pred' = <<>>
    /\ label' = "none"
    /\ confidence' = 0
    /\ st_analysis' = NoAnalysis
    /\ st_seg' = "none"
    /\ mi_type' = "none"
    /\ report' = NoReport
    /\ shown' = <<>>
    /\ confidences' = <<>>
    /\ document' = NoDocument
    /\ warn_writes' = 0
    /\ infer_calls' = 0
    /\ predict_calls' = 0
    /\ UNCHANGED <<arg, ret>>

Next ==
    \/ Upload
    \/ Preprocess
    \/ Predict
    \/ LabelAndCalibrate
    \/ Analyze
    \/ Branch
    \/ Assemble
    \/ Validate
    \/ Return
    \/ Summary
    \/ Chart
    \/ GeneratePdf
    \/ Rerun

Spec == Init /\ [][Next]_vars

-----------------------------------------------------------------------------
(* Direct calls of validate_parameters on hand-built reports.              *)

\* Characters of the hand-built heart-rate strings.
HRAlphabet == {"0", "1", "6", " ", "-", "_", "B"}

HeartRateStrings ==
    {FormatBPM(n) : n \in 0..MaxRate} \cup SeqsUpTo(HRAlphabet, MaxStrLen)

\* The fields validate_parameters reads besides "Heart Rate".
OtherFields ==
    {("Heart Rhythm" :> r) @@ ("Diagnosis" :> d) @@ ("ST Segment" :> st) :
        r \in {"Regular", "Irregular"},
        d \in Range(_CLASS_LABELS) \cup {"Unknown"},
        st \in {"Normal", "Elevation", "Depression"}}

\* Reports with a "Heart Rate" string, and reports without the key.
HandBuiltReports ==
    {("Heart Rate" :> h) @@ o : h \in HeartRateStrings, o \in OtherFields}
        \cup OtherFields

InitValidate ==
    /\ pc = "validate_call"
    /\ arg \in HandBuiltReports
    /\ ret = NoResult
    /\ PipelineIdle

CallValidate ==
    /\ pc = "validate_call"
    /\ pc' = "validate_done"
    /\ ret' = IF validate_raises(arg)
              THEN [raised |-> TRUE]
              ELSE [raised |-> FALSE, value |-> validate_parameters(arg)]
    /\ UNCHANGED <<arg, pipeline_vars>>

NextValidate == CallValidate

SpecValidate == InitValidate /\ [][NextValidate]_vars

-----------------------------------------------------------------------------
(* Direct calls of infer_mi_type on hand-built analyses.                   *)

\* Lead names a hand-built leads_affected list may hold: the 12 standard
\* leads and V4R, which _MI_TYPES names.
HandLeads == Range(_LEADS_ALL) \cup {"V4R"}

InitTerritory ==
    /\ pc = "infer_build"
    /\ arg = [leads_affected |-> <<>>]
    /\ ret = NoResult
    /\ PipelineIdle

\* The caller appends one more lead to the list (a lead is listed once).
AddLead ==
    /\ pc = "infer_build"
    /\ Len(arg.leads_affected) < MaxLeads
    /\ \E l \in HandLeads \ Range(arg.leads_affected) :
           arg' = [arg EXCEPT !.leads_affected = Append(@, l)]
    /\ UNCHANGED <<pc, ret, pipeline_vars>>

CallInfer ==
    /\ pc = "infer_build"
    /\ pc' = "infer_done"
    /\ ret' = infer_mi_type(arg)
    /\ UNCHANGED <<arg, pipeline_vars>>

NextTerritory == AddLead \/ CallInfer

SpecTerritory == InitTerritory /\ [][NextTerritory]_vars

-----------------------------------------------------------------------------
(* Direct calls of analyze_st_segment on generated signals.                *)

\* Where the steps of the generated signals are: inside, at and next to
\* the edges of the two windows.
Breaks == {0, 24, 25, 26, 49, 50, 51, 99, 100, 101, 109, 110, 111,
           119, 120, 121, 187}

StepSignals ==
    {StepSignal(b1, b2, v0, v1, v2) :
        b1 \in Breaks, b2 \in Breaks,
        v0 \in 0..MaxSample, v1 \in 0..MaxSample, v2 \in 0..MaxSample}

InitST ==
    /\ pc = "st_call"
    /\ arg \in StepSignals
    /\ ret = NoResult
    /\ PipelineIdle

CallAnalyze ==
    /\ pc = "st_call"
    /\ pc' = "st_done"
    /\ ret' = analyze_st_segment(arg)
    /\ UNCHANGED <<arg, pipeline_vars>>

NextST == CallAnalyze

SpecST == InitST /\ [][NextST]_vars

-----------------------------------------------------------------------------
(* Direct calls of generate_pdf_report on hand-built reports.              *)

\* Lists of at most n of the names, each in the order of the sequence
\* (generate_pdf_report turns the list into a set).
RECURSIVE SubLists(_, _)
SubLists(names, n) ==
    IF names = <<>> \/ n = 0 THEN {<<>>}
    ELSE SubLists(Tail(names), n)
            \cup {<<Head(names)>> \o l : l \in SubLists(Tail(names), n - 1)}

\* "Affected Leads" of the hand-built reports: standard leads and V4R.
RenderLeadLists == SubLists(_LEADS_ALL \o <<"V4R">>, MaxAffected)

\* "Validation Warnings" of the hand-built reports: every list the
\* validator can return, a list in another order and a foreign text.
RenderWarningLists ==
    {validate_parameters(("Heart Rate" :> FormatBPM(n)) @@ o) :
        n \in {45, 75, 120}, o \in OtherFields}
      \cup {<<MIWarning, BradycardiaWarning>>, <<"Manual note">>}

\* Diagnosis, ST segment and MI type of the hand-built reports.
RenderFindings ==
    {<<"Normal", "Normal", "N/A">>,
     <<"Myocardial Infarction", "Elevation", "Undetermined Type">>}

\* A report with the 12 keys of lines 223-236.
HandReport(leads, warnings, conf, finding) ==
    ("Patient ID" :> "f47ac10b")
    @@ ("Heart Rate" :> FormatBPM(75))
    @@ ("RR Interval" :> FormatSeconds(80))
    @@ ("Heart Rhythm" :> "Regular")
    @@ ("Cardiac Axis" :> "Normal Axis")
    @@ ("ST Segment" :> finding[2])
    @@ ("Diagnosis" :> finding[1])
    @@ ("MI Type" :> finding[3])
    @@ ("Confidence" :> conf)
    @@ ("Validation Warnings" :> warnings)
    @@ ("Affected Leads" :> leads)
    @@ ("Lead II Detail" :> LeadIIDetail(finding[2]))

\* arg keeps the report as it was built, report is the dict that is passed
\* to generate_pdf_report, ret lists the documents written so far.
InitRender ==
    /\ pc = "render_call"
    /\ \E leads \in RenderLeadLists, warnings \in RenderWarningLists,
          conf \in {0, 52, 100}, finding \in RenderFindings :
           arg = HandReport(leads, warnings, conf, finding)
    /\ ret = <<>>
    /\ image = "none"
    /\ model_out = <<>>
    /\ noise = 0
    /\ processed_data = <<>>
    /\ pred = <<>>
    /\ label = "none"
    /\ confidence = 0
    /\ st_analysis = NoAnalysis
    /\ st_seg = "none"
    /\ mi_type = "none"
    /\ report = arg
    /\ shown = <<>>
    /\ confidences = <<>>
    /\ document = NoDocument
    /\ warn_writes = 0
    /\ infer_calls = 0
    /\ predict_calls = 0

\* Mutant of CallRender: the renderer drains the warnings list of the report
\* while it prints it.
CallRender_DrainsWarnings ==
    /\ pc = "render_call"
    /\ Len(ret) < 2
    /\ document' = generate_pdf_report(report)
    /\ ret' = Append(ret, document')
    /\ report' = [report EXCEPT !["Validation Warnings"] = <<>>]
    /\ UNCHANGED <<pc, arg, image, model_out, noise, processed_data, pred,
                   label, confidence, st_analysis, st_seg, mi_type,
                   shown, confidences, warn_writes, infer_calls,
                   predict_calls>>

\* generate_pdf_report(report), called up to twice on the same report: the
\* function reads the report and writes the document.
CallRender ==
    /\ pc = "render_call"
    /\ Len(ret) < 2
    /\ document' = generate_pdf_report(report)
    /\ ret' = Append(ret, document')
    /\ UNCHANGED <<pc, arg, image, model_out, noise, processed_data, pred,
                   label, confidence, st_analysis, st_seg, mi_type, report,
                   shown, confidences, warn_writes, infer_calls,
                   predict_calls>>

NextRender == CallRender

SpecRender == InitRender /\ [][NextRender]_vars

-----------------------------------------------------------------------------
(* The objects of successive runs.  Lists and dicts are objects of a heap, *)
(* a sequence whose index is the identity of the object; a field that      *)
(* holds a list or a dict holds its index.  In this specification arg is   *)
(* the heap, ret the reports returned so far, report and st_analysis the   *)
(* locals of the running call.                                             *)

\* The module-level tables, created once at import (lines 72-119).
StaticObjects ==
    <<_MI_TYPES,
      _CLASS_LABELS,
      [l \in Range(_LEADS_ALL) |-> _LEAD_ANALYSIS(l)],
      _LEADS_ALL>>

heap_rest ==
    <<image, model_out, noise, processed_data, pred, label, confidence,
      st_seg, mi_type, shown, confidences, warn_writes, infer_calls,
      predict_calls>>

\* The warnings lists validate_parameters returns for reports of the
\* pipeline.
PipelineWarningLists ==
    {validate_parameters(("Heart Rate" :> FormatBPM(n)) @@ ("Heart Rhythm" :> r)
                         @@ ("Diagnosis" :> "Normal") @@ ("ST Segment" :> "Normal")) :
        n \in {50, 75}, r \in {"Regular", "Irregular"}}

InitHeap ==
    /\ pc = "heap_idle"
    /\ arg = StaticObjects
    /\ ret = <<>>
    /\ PipelineIdle

\* Mutant of AnalysisObjects: 'leads_affected' is a module-level list (the
\* object of _LEADS_ALL) instead of a list display.
AnalysisObjects_ModuleLevel(heap) ==
    [heap |-> heap, leads_affected |-> Len(StaticObjects)]

\* analyze_st_segment, line 157: the list display ['II'] makes a new list
\* at every call.
AnalysisObjects(heap) ==
    [heap |-> Append(heap, <<"II">>), leads_affected |-> Len(heap) + 1]

HeapAnalyze ==
    /\ pc = "heap_idle"
    /\ Len(ret) < MaxRuns
    /\ LET made == AnalysisObjects(arg)
       IN  /\ arg' = made.heap
           /\ st_analysis' = [leads_affected |-> made.leads_affected]
    /\ pc' = "heap_analyzed"
    /\ UNCHANGED <<ret, report, document, heap_rest>>

\* Lines 210-236: the dict display of lead_ii_detail, the list display []
\* and the dict display of the report each make a new object; "Affected
\* Leads" is the list of the analysis itself.
HeapAssemble ==
    /\ pc = "heap_analyzed"
    /\ LET n == Len(arg)
       IN  /\ arg' = arg \o <<LeadIIDetail("Normal"),
                              <<>>,
                              [affected |-> st_analysis.leads_affected,
                               warnings |-> n + 2,
                               detail   |-> n + 1]>>
           /\ report' = n + 3
    /\ pc' = "heap_assembled"
    /\ UNCHANGED <<ret, st_analysis, document, heap_rest>>

\* Line 238 with line 170: validate_parameters fills a list of its own and
\* the report's key is bound to it.
HeapValidate ==
    /\ pc = "heap_assembled"
    /\ \E warnings \in PipelineWarningLists :
           arg' = Append([arg EXCEPT ![report].warnings = Len(arg) + 1],
                         warnings)
    /\ pc' = "heap_validated"
    /\ UNCHANGED <<ret, report, st_analysis, document, heap_rest>>

\* Line 239: the report leaves the call and the locals go.
HeapReturn ==
    /\ pc = "heap_validated"
    /\ ret' = Append(ret, report)
    /\ report' = NoReport
    /\ st_analysis' = NoAnalysis
    /\ pc' = "heap_returned"
    /\ UNCHANGED <<arg, document, heap_rest>>

\* generate_pdf_report on the report just returned: it reads the report's
\* objects and the tables.
HeapRender ==
    /\ pc = "heap_returned"
    /\ LET r   == arg[ret[Len(ret)]]
           rep == ("Affected Leads" :> arg[r.affected])
                  @@ ("Validation Warnings" :> arg[r.warnings])
                  @@ ("Lead II Detail" :> arg[r.detail])
       IN  document' = [rows |-> LeadRows(rep), notes |-> WarningsBlock(rep)]
    /\ pc' = "heap_idle"
    /\ UNCHANGED <<arg, ret, report, st_analysis, heap_rest>>

NextHeap ==
    \/ HeapAnalyze
    \/ HeapAssemble
    \/ HeapValidate
    \/ HeapReturn
    \/ HeapRender

SpecHeap == InitHeap /\ [][NextHeap]_vars

-----------------------------------------------------------------------------
(* MetadataExtractor.extract_metadata, lines 26-48.  A text is a sequence  *)
(* of one-character strings.                                               *)

\* a-zA-Z of the character class.
ReLetters ==
    {"a", "b", "c", "d", "e", "f", "g", "h", "i", "j", "k", "l", "m",
     "n", "o", "p", "q", "r", "s", "t", "u", "v", "w", "x", "y", "z",
     "A", "B", "C", "D", "E", "F", "G", "H", "I", "J", "K", "L", "M",
     "N", "O", "P", "Q", "R", "S", "T", "U", "V", "W", "X", "Y", "Z"}

\* \s of the regular expressions (its ASCII members that a string of the
\* model can hold); \n and \t are among them.
ReWhitespace == {" ", "\t", "\n", "\r", "\f"}

\* The characters the class [^a-zA-Z0-9\s\t\n\/\\.,-] does not match.
ReKept ==
    ReLetters \cup Range(Digits) \cup ReWhitespace
        \cup {"/", "\\", ".", ",", "-"}

\* re.sub(r"[^a-zA-Z0-9\s\t\n\/\\.,-]+", "", metadata): every run of
\* characters outside the class is replaced by nothing.
StripDisallowed(text) == SelectSeq(text, LAMBDA c : c \in ReKept)

\* The end of the match of (\n|\s|\t)+ that starts at index i: the greedy
\* repetition takes every whitespace character that follows.
RECURSIVE RunEnd(_, _)
RunEnd(text, i) ==
    IF i + 1 <= Len(text) /\ text[i + 1] \in ReWhitespace
    THEN RunEnd(text, i + 1)
    ELSE i

\* Mutant of CollapseFrom: a run is replaced by a blank.
RECURSIVE CollapseFrom_Blank(_, _)
CollapseFrom_Blank(text, i) ==
    IF i > Len(text) THEN <<>>
    ELSE IF /\ text[i] \in ReWhitespace
            /\ i + 1 <= Len(text)
            /\ text[i + 1] \in ReWhitespace
         THEN <<" ">> \o CollapseFrom_Blank(text, RunEnd(text, i + 1) + 1)
         ELSE <<text[i]>> \o CollapseFrom_Blank(text, i + 1)

\* re.sub(r"(\n|\s|\t)(\n|\s|\t)+", r"\1", metadata) from index i on: the
\* scan goes left to right; where a whitespace character is followed by
\* another one the match takes the whole run and group 1, the first
\* character, replaces it; any other character is copied.
RECURSIVE CollapseFrom(_, _)
CollapseFrom(text, i) ==
    IF i > Len(text) THEN <<>>
    ELSE IF /\ text[i] \in ReWhitespace
            /\ i + 1 <= Len(text)
            /\ text[i + 1] \in ReWhitespace
         THEN <<text[i]>> \o CollapseFrom(text, RunEnd(text, i + 1) + 1)
         ELSE <<text[i]>> \o CollapseFrom(text, i + 1)

\* Lines 46-47.
FormatMetadata(metadata) == CollapseFrom(StripDisallowed(metadata), 1)

\* Characters of the OCR texts: kept ones of every kind, three different
\* whitespace characters and two characters outside the class.
OCRAlphabet == {"a", "7", " ", "\n", "\t", "-", "\\", "#", "@"}

\* What pytesseract.image_to_string does: it returns a text or raises
\* TesseractNotFoundError.
OCROutcomes ==
    {[found |-> TRUE, text |-> t] : t \in SeqsUpTo(OCRAlphabet, MaxTextLen)}
        \cup {[found |-> FALSE, text |-> <<>>]}

InitExtract ==
    /\ pc = "extract_call"
    /\ arg \in OCROutcomes
    /\ ret = NoResult
    /\ PipelineIdle

\* extract_metadata(ecg): DigitizationError when Tesseract is missing, the
\* formatted text otherwise.
CallExtract ==
    /\ pc = "extract_call"
    /\ pc' = "extract_done"
    /\ \/ /\ ~arg.found
          /\ ret' = [raised |-> TRUE]
       \/ /\ arg.found
          /\ ret' = [raised |-> FALSE, value |-> FormatMetadata(arg.text)]
    /\ UNCHANGED <<arg, pipeline_vars>>

NextExtract == CallExtract

SpecExtract == InitExtract /\ [][NextExtract]_vars

-----------------------------------------------------------------------------
(* The live-stream loop of app.py, lines 263-291.  In this specification   *)
(* arg is the record of st.session_state and the locals of the loop, ret   *)
(* the list of all points generated since the loop began.  Signal values   *)
(* are in tenths.                                                          *)

max_ecg_points == 600

beat_duration == 1000

TimeStep == 5

\* sin(u / width * pi) * height in tenths, by the parabola with the same
\* zeroes and the same peak, rounded down.
Hump(u, width, height) == (40 * height * u * (width - u)) \div (width * width)

\* np.random.rand() is a pseudo-random sequence fixed by the state of the
\* generator: the k-th draw of (rand() - 0.5) * 5, in tenths (-25..24).
RandSeeds == {0, 17}

RandNoise(seed, k) == ((seed + 13 * k) % 50) - 25

\* generate_ecg_point without the noise term, lines 12-37.
Waveform(time_in_beat) ==
    IF 0 <= time_in_beat /\ time_in_beat < 100
    THEN Hump(time_in_beat, 100, 10)
    ELSE IF 100 <= time_in_beat /\ time_in_beat < 150 THEN 0
    ELSE IF 150 <= time_in_beat /\ time_in_beat < 250
    THEN IF time_in_beat < 170 THEN 15 * (time_in_beat - 170)
         ELSE IF time_in_beat < 200
              THEN (0 - 800 * (time_in_beat - 170)) \div 30
              ELSE 10 * (time_in_beat - 200)
    ELSE IF 250 <= time_in_beat /\ time_in_beat < 320 THEN 0
    ELSE IF 320 <= time_in_beat /\ time_in_beat < 450
    THEN Hump(time_in_beat - 320, 130, 20)
    ELSE 0

\* generate_ecg_point(time_ms, ecg_type) with the noise draw given.
generate_ecg_point(time_ms, ecg_type, rand) ==
    LET time_in_beat == time_ms % beat_duration
        y0 == Waveform(time_in_beat) + rand
        y1 == IF 250 <= time_in_beat /\ time_in_beat < 320
              THEN y0 - 300 ELSE y0
        y2 == IF 150 <= time_in_beat /\ time_in_beat < 170
              THEN y1 + 30 * (time_in_beat - 170) ELSE y1
        y3 == IF 320 <= time_in_beat /\ time_in_beat < 450
              THEN (0 - 3 * y2) \div 2 ELSE y2
    IN  IF ecg_type = "mi" THEN y3 ELSE y0

\* Mutant of LastPoints: the first n points are kept.
LastPoints_Oldest(points, n) == SubSeq(points, 1, n)

\* points[-n:] for 0 < n < len(points).
LastPoints(points, n) == SubSeq(points, Len(points) - n + 1, Len(points))

\* A stream was started (lines 160-170) and the loop is about to begin
\* (lines 264-266).
LoopEntry(ecg_type, seed) ==
    [is_streaming    |-> TRUE,
     ecg_type        |-> ecg_type,
     seed            |-> seed,
     ecg_data_points |-> <<>>,
     time_index      |-> 0]

InitStream ==
    /\ pc = "stream_loop"
    /\ \E ecg_type \in {"normal", "mi"}, seed \in RandSeeds :
           arg = LoopEntry(ecg_type, seed)
    /\ ret = <<>>
    /\ PipelineIdle

\* One pass of the loop body, lines 269-287.
StreamIterate ==
    /\ pc = "stream_loop"
    /\ arg.is_streaming
    /\ Len(ret) < MaxIterations
    /\ LET new_point_value ==
               generate_ecg_point(arg.time_index, arg.ecg_type,
                                  RandNoise(arg.seed, Len(ret)))
           appended == Append(arg.ecg_data_points, new_point_value)
       IN  /\ arg' = [arg EXCEPT
                        !.ecg_data_points =
                            IF Len(appended) > max_ecg_points
                            THEN LastPoints(appended, max_ecg_points)
                            ELSE appended,
                        !.time_index = arg.time_index + TimeStep]
           /\ ret' = Append(ret, new_point_value)
    /\ UNCHANGED <<pc, pipeline_vars>>

\* The Stop button, lines 176-179.
StopStream ==
    /\ pc = "stream_loop"
    /\ arg.is_streaming
    /\ arg' = [arg EXCEPT !.is_streaming = FALSE, !.ecg_type = "none"]
    /\ UNCHANGED <<pc, ret, pipeline_vars>>

\* The loop ends when the flag is off, lines 269 and 290-291.
StreamExit ==
    /\ pc = "stream_loop"
    /\ ~arg.is_streaming
    /\ pc' = "stream_done"
    /\ UNCHANGED <<arg, ret, pipeline_vars>>

\* A start button begins a new stream with a new buffer.
StreamRestart ==
    /\ pc = "stream_done"
    /\ \E ecg_type \in {"normal", "mi"} :
           arg' = LoopEntry(ecg_type, arg.seed)
    /\ ret' = <<>>
    /\ pc' = "stream_loop"
    /\ UNCHANGED pipeline_vars

NextStream ==
    \/ StreamIterate
    \/ StopStream
    \/ StreamExit
    \/ StreamRestart

SpecStream == InitStream /\ [][NextStream]_vars

-----------------------------------------------------------------------------
(* Properties of the pipeline (Spec).                                      *)

\* The report dict exists (line 223 has run in this run).
HasReport == "Diagnosis" \in DOMAIN report

\* process_ecg_image has returned the report to main.
Returned == pc \in {"summary", "chart", "pdf", "done"}

\* The fields validate_parameters reads.
ValidatedFields(rep) ==
    <<rep["Heart Rate"], rep["Heart Rhythm"], rep["ST Segment"], rep["Diagnosis"]>>

\* A step that stores to the warnings of an existing report, as far as the
\* state shows it: the field changes or the store is counted.
WarningsStored ==
    /\ HasReport
    /\ HasReport'
    /\ \/ report'["Validation Warnings"] # report["Validation Warnings"]
       \/ warn_writes' # warn_writes

\* C1, steps: the warnings of an existing report are stored only by line
\* 238, which leaves the four fields it read as they are, and from that
\* store on no step changes these fields or the warnings while the run has
\* the report (summary display and generate_pdf_report included).
C1_Steps ==
    /\ WarningsStored =>
           /\ pc = "validate"
           /\ warn_writes = 0
           /\ warn_writes' = 1
           /\ ValidatedFields(report') = ValidatedFields(report)
           /\ report'["Validation Warnings"] = validate_parameters(report)
    /\ (HasReport /\ HasReport' /\ warn_writes >= 1) =>
           /\ ValidatedFields(report') = ValidatedFields(report)
           /\ report'["Validation Warnings"] = report["Validation Warnings"]

\* C1, states: a report is created with empty, not yet stored warnings; a
\* report that process_ecg_image has returned has had exactly one store, and
\* its warnings are validate_parameters of its own final fields.
C1_States ==
    /\ (HasReport /\ warn_writes = 0) =>
           (pc = "validate" /\ report["Validation Warnings"] = <<>>)
    /\ (pc = "return" \/ Returned) =>
           /\ HasReport
           /\ warn_writes = 1
           /\ report["Validation Warnings"] = validate_parameters(report)

\* C1: in every run the Validation Warnings field is written exactly once
\* after creation, after Heart Rate, Heart Rhythm, ST Segment and Diagnosis
\* have their final values; the returned report's warnings are
\* validate_parameters of its final fields and no later step changes them.
C1_WarningsWrittenOnceAtEnd == [][C1_Steps]_vars /\ []C1_States

\* C1 witness: a run is done, its PDF is written, and the report carries
\* the two warnings stored by one write.
C1_Witness ==
    /\ pc = "done"
    /\ warn_writes = 1
    /\ report["Validation Warnings"] = <<BradycardiaWarning, IrregularWarning>>
    /\ document = generate_pdf_report(report)
    /\ document.notes.present

\* C2: a failed or malformed classifier answer (such as a vector whose
\* argmax index is outside 0..4) ends the run and no diagnosis is made up:
\* the Diagnosis of every report that process_ecg_image returns is one of
\* the 5 class labels.
C2_NoFabricatedDiagnosis ==
    (pc = "return" \/ Returned) =>
        report["Diagnosis"] \in {"Normal", "ST Depression",
            "Myocardial Infarction", "ST Elevation", "Other Abnormalities"}

\* C8: infer_mi_type is called only for the diagnosis Myocardial Infarction;
\* the MI Type of a report is "N/A" exactly when its diagnosis is not
\* Myocardial Infarction and is the result of infer_mi_type otherwise.
C8_TerritoryOnlyForInfarction ==
    /\ infer_calls <= 1
    /\ pc \in {"preprocess", "predict", "label", "analyze", "branch"} =>
           infer_calls = 0
    /\ pc \in {"assemble", "validate", "return"} =>
           /\ infer_calls = 1 <=> label = "Myocardial Infarction"
           /\ mi_type = "N/A" <=> label # "Myocardial Infarction"
    /\ HasReport =>
           /\ infer_calls = 1 <=> report["Diagnosis"] = "Myocardial Infarction"
           /\ report["MI Type"] = "N/A"
                  <=> report["Diagnosis"] # "Myocardial Infarction"
           /\ report["Diagnosis"] = "Myocardial Infarction" =>
                  report["MI Type"] =
                      infer_mi_type([leads_affected |-> report["Affected Leads"]])

\* C8 witness: a run with the diagnosis Myocardial Infarction is done, after
\* one call of infer_mi_type, whose result the report carries.
C8_Witness ==
    /\ pc = "done"
    /\ report["Diagnosis"] = "Myocardial Infarction"
    /\ infer_calls = 1
    /\ report["MI Type"] = "Undetermined Type"

-----------------------------------------------------------------------------
(* Properties of validate_parameters (SpecValidate).                       *)

Validated == pc = "validate_done" /\ ~ret.raised

Has(warnings, w) == \E i \in DOMAIN warnings : warnings[i] = w

Count(warnings, w) == Cardinality({i \in DOMAIN warnings : warnings[i] = w})

\* The heart-rate fields "<n> BPM" of the hand-built reports, by n.
FormattedRates == [n \in 0..MaxRate |-> FormatBPM(n)]

\* C3: validate_parameters gives the bradycardia warning exactly when the
\* parsed heart rate is below 60 and the tachycardia warning exactly when it
\* is above 100, so neither at 60..100 (60 and 100 included) and never both;
\* for a field written as "<n> BPM" the parsed rate is n.
C3_RateWarnings ==
    Validated =>
        LET hr == ParsedHeartRate(arg)
        IN  /\ Has(ret.value, BradycardiaWarning) <=> hr < 60
            /\ Has(ret.value, TachycardiaWarning) <=> hr > 100
            /\ (60 <= hr /\ hr <= 100) =>
                   /\ ~Has(ret.value, BradycardiaWarning)
                   /\ ~Has(ret.value, TachycardiaWarning)
            /\ ~(Has(ret.value, BradycardiaWarning)
                    /\ Has(ret.value, TachycardiaWarning))
            /\ \A n \in 0..MaxRate :
                   ("Heart Rate" \in DOMAIN arg
                        /\ arg["Heart Rate"] = FormattedRates[n]) =>
                       /\ hr = n
                       /\ Has(ret.value, BradycardiaWarning) <=> n < 60
                       /\ Has(ret.value, TachycardiaWarning) <=> n > 100

\* C3 witness: "101 BPM" was validated and has the tachycardia warning.
C3_Witness ==
    /\ Validated
    /\ "Heart Rate" \in DOMAIN arg
    /\ arg["Heart Rate"] = <<"1", "0", "1", " ", "B", "P", "M">>
    /\ Has(ret.value, TachycardiaWarning)
    /\ ~Has(ret.value, BradycardiaWarning)

\* The messages whose rule applies to a report, rule by rule.
RateRuleMessages(rep) ==
    IF ParsedHeartRate(rep) < 60 THEN <<BradycardiaWarning>>
    ELSE IF ParsedHeartRate(rep) > 100 THEN <<TachycardiaWarning>>
         ELSE <<>>

RhythmRuleMessages(rep) ==
    IF rep["Heart Rhythm"] = "Irregular" THEN <<IrregularWarning>> ELSE <<>>

InfarctionRuleApplies(rep) ==
    rep["Diagnosis"] = "Myocardial Infarction" /\ rep["ST Segment"] # "Elevation"

InfarctionRuleMessages(rep) ==
    IF InfarctionRuleApplies(rep) THEN <<MIWarning>> ELSE <<>>

\* C4: the result of validate_parameters is exactly the messages whose rule
\* applies, each once, in the order rate, rhythm, infarction; no rule
\* suppresses another, and the result is empty when no rule applies.
C4_AllRulesInOrder ==
    Validated =>
        /\ ret.value = RateRuleMessages(arg) \o RhythmRuleMessages(arg)
                           \o InfarctionRuleMessages(arg)
        /\ \A w \in {BradycardiaWarning, TachycardiaWarning,
                     IrregularWarning, MIWarning} : Count(ret.value, w) <= 1

\* C4 witness: a report to which all three rules apply got three warnings.
C4_Witness ==
    /\ Validated
    /\ ret.value = <<TachycardiaWarning, IrregularWarning, MIWarning>>

\* C5: the MI-without-elevation warning is in the result exactly when the
\* diagnosis is Myocardial Infarction and the ST segment is not Elevation,
\* whatever the heart rate and the rhythm are.
C5_InfarctionWarning ==
    Validated =>
        (Has(ret.value, MIWarning) <=>
            (arg["Diagnosis"] = "Myocardial Infarction"
                /\ arg["ST Segment"] # "Elevation"))

\* C5 witness: an infarction with a depressed ST segment and a regular
\* rhythm at 75 BPM got the warning, and only it.
C5_Witness ==
    /\ Validated
    /\ "Heart Rate" \in DOMAIN arg
    /\ arg["Heart Rate"] = FormatBPM(75)
    /\ arg["Heart Rhythm"] = "Regular"
    /\ arg["Diagnosis"] = "Myocardial Infarction"
    /\ arg["ST Segment"] = "Depression"
    /\ ret.value = <<MIWarning>>

\* The heart-rate field has no parsable leading integer: the key is absent,
\* the string holds no token, or its first token is not an integer literal.
NoLeadingInteger(rep) ==
    \/ "Heart Rate" \notin DOMAIN rep
    \/ split(rep["Heart Rate"]) = <<>>
    \/ ~IsIntLiteral(split(rep["Heart Rate"])[1])

\* C6: when the heart-rate field has no parsable leading integer the call
\* does not raise and the rate counts as 0: the result has the bradycardia
\* warning, not the tachycardia warning, and the rhythm and infarction rules
\* are evaluated as usual.
C6_UnparsableRate ==
    (pc = "validate_done" /\ NoLeadingInteger(arg)) =>
        /\ ~ret.raised
        /\ ret.value = <<BradycardiaWarning>> \o RhythmRuleMessages(arg)
                           \o InfarctionRuleMessages(arg)
        /\ ~Has(ret.value, TachycardiaWarning)

\* C6 witness: a report without the "Heart Rate" key, irregular, was
\* validated without an exception.
C6_Witness ==
    /\ pc = "validate_done"
    /\ "Heart Rate" \notin DOMAIN arg
    /\ arg["Heart Rhythm"] = "Irregular"
    /\ ~ret.raised
    /\ ret.value = <<BradycardiaWarning, IrregularWarning>>

-----------------------------------------------------------------------------
(* Properties of infer_mi_type (SpecTerritory).                            *)

\* The table entries whose whole lead set is among the given leads.
FullMatches(leads) ==
    {i \in DOMAIN _MI_TYPES : Range(_MI_TYPES[i].leads) \subseteq leads}

\* C7: infer_mi_type returns the first territory in table order (Anterior,
\* Inferior, Lateral, Posterior, Right Ventricular) whose whole lead set is
\* among leads_affected, and "Undetermined Type" when there is none: V2, V3,
\* V4 give Anterior, leads that include V1..V4 give Anterior and not
\* Posterior, and fewer than 2 leads give "Undetermined Type".
C7_FirstFullMatch ==
    pc = "infer_done" =>
        LET leads   == Range(arg.leads_affected)
            matches == FullMatches(leads)
        IN  /\ [i \in 1..5 |-> _MI_TYPES[i].name] =
                   <<"Anterior", "Inferior", "Lateral", "Posterior",
                     "Right Ventricular">>
            /\ matches = {} => ret = "Undetermined Type"
            /\ matches # {} =>
                   \E i \in matches :
                       /\ ret = _MI_TYPES[i].name
                       /\ \A j \in matches : i <= j
            /\ leads = {"V2", "V3", "V4"} => ret = "Anterior"
            /\ {"V1", "V2", "V3", "V4"} \subseteq leads => ret = "Anterior"
            /\ Cardinality(leads) < 2 => ret = "Undetermined Type"

\* C7 witness: the call was made with V1, V2, V3, V4 in an order that lists
\* the Posterior leads first, and returned Anterior.
C7_Witness ==
    /\ pc = "infer_done"
    /\ arg.leads_affected = <<"V1", "V2", "V4", "V3">>
    /\ ret = "Anterior"

-----------------------------------------------------------------------------
(* Properties of analyze_st_segment (SpecST).                              *)

\* C9: the analysis never has elevation and depression both true:
\* elevation holds exactly when level > 0.1 (4 fortieths), depression
\* exactly when level < -0.1, and both are false from -0.1 to 0.1.
C9_ExclusiveFlags ==
    pc = "st_done" =>
        /\ ~(ret.elevation /\ ret.depression)
        /\ ret.elevation <=> ret.level > 4
        /\ ret.depression <=> ret.level < -4
        /\ (-4 <= ret.level /\ ret.level <= 4) =>
               (~ret.elevation /\ ~ret.depression)

\* C9 witness: a signal whose level is exactly 0.1 was analyzed, and
\* neither flag is set.
C9_Witness ==
    /\ pc = "st_done"
    /\ ret.level = 4
    /\ ~ret.elevation
    /\ ~ret.depression

\* The k-th smallest of the samples signal[lo..hi] (0-based, inclusive),
\* stated by counting: the least value that at least k samples do not exceed.
KthSmallest(signal, lo, hi, k) ==
    LET vals == {signal[i + 1] : i \in lo..hi}
        atMost(v) == Cardinality({i \in lo..hi : signal[i + 1] <= v})
    IN  CHOOSE v \in vals :
            /\ atMost(v) >= k
            /\ \A u \in vals : atMost(u) >= k => v <= u

\* The median of the samples signal[lo..hi], an even number of them, in
\* fortieths: the sum of the two middle order statistics.
WindowMedian(signal, lo, hi) ==
    LET half == (hi - lo + 1) \div 2
    IN  KthSmallest(signal, lo, hi, half) + KthSmallest(signal, lo, hi, half + 1)

\* C10: for a signal of length 187 the level is the median of samples
\* 100..119 minus the median of samples 0..49; the right-hand side reads no
\* other sample, so the level depends on none.
C10_LevelIsMedianDifference ==
    pc = "st_done" =>
        /\ Len(arg) = 187
        /\ ret.level = WindowMedian(arg, 100, 119) - WindowMedian(arg, 0, 49)

\* C10 witness: a signal that steps inside both windows and differs outside
\* them was analyzed; each median is the mean of two different samples.
C10_Witness ==
    /\ pc = "st_done"
    /\ arg = StepSignal(25, 110, 0, 1, 2)
    /\ ret.level = 3 - 1

-----------------------------------------------------------------------------
(* Properties of a run of main (Spec), continued.                          *)

\* C14: for each processed image the class-probability vector comes from
\* exactly one call of the classifier, so a run that has drawn the chart
\* has called model.predict once.
C14_OneClassifierCall ==
    pc \in {"pdf", "done"} => predict_calls = 1

\* The locals of process_ecg_image hold the vector, the noise draw and the
\* calibrated confidence.
Calibrated == pc \in {"analyze", "branch", "assemble", "validate", "return"}

\* C15: the Confidence of the report lies in [0,1] (0..100 hundredths): the
\* top-class probability plus the noise draw is stored as 0 when below 0,
\* as 1 when above 1 and unchanged when inside the interval.
C15_ConfidenceClamped ==
    /\ Calibrated =>
           LET top == pred[argmax(pred) + 1]
               perturbed == top + noise
           IN  /\ \A i \in DOMAIN pred : pred[i] <= top
               /\ perturbed < 0 => confidence = 0
               /\ perturbed > 100 => confidence = 100
               /\ (perturbed >= 0 /\ perturbed <= 100) => confidence = perturbed
               /\ HasReport => report["Confidence"] = confidence
    /\ HasReport => report["Confidence"] \in 0..100

\* C15 witness: a top probability of 1.0 with a positive noise draw was
\* stored as a confidence of exactly 1.
C15_Witness ==
    /\ pc = "return"
    /\ pred[argmax(pred) + 1] = 100
    /\ noise > 0
    /\ report["Confidence"] = 100

\* The 12 keys of a report.
ReportKeys ==
    {"Patient ID", "Heart Rate", "RR Interval", "Heart Rhythm",
     "Cardiac Axis", "ST Segment", "Diagnosis", "MI Type", "Confidence",
     "Validation Warnings", "Affected Leads", "Lead II Detail"}

\* C16: no partial report is emitted: a report that exists has all 12
\* fields, a run that displays a report also renders it, and a run that
\* fails has displayed nothing of a report and has not called
\* generate_pdf_report.
C16_NoPartialReport ==
    /\ HasReport => DOMAIN report = ReportKeys
    /\ pc = "done" => shown # <<>> /\ document = generate_pdf_report(report)
    /\ pc = "aborted" => shown = <<>> /\ document = NoDocument

\* The warning texts put on the screen and into the document.
ShownWarnings ==
    {shown[i].text[Len(shown[i].text)] :
        i \in {j \in DOMAIN shown : shown[j].call = "warning"}}

DocumentNotes ==
    IF pc = "done" /\ document.notes.present
    THEN {document.notes.lines[i][2] : i \in DOMAIN document.notes.lines}
    ELSE {}

\* C19: a report of process_ecg_image with the diagnosis "Myocardial
\* Infarction" has the ST segment "Elevation", so the warning "MI diagnosis
\* without ST elevation - consider alternative diagnoses" is in no report
\* of the pipeline, on no screen and in no document of it.
C19_NoInfarctionWarningInPipeline ==
    /\ (HasReport /\ report["Diagnosis"] = "Myocardial Infarction")
           => report["ST Segment"] = "Elevation"
    /\ HasReport =>
           "MI diagnosis without ST elevation - consider alternative diagnoses"
               \notin Range(report["Validation Warnings"])
    /\ "MI diagnosis without ST elevation - consider alternative diagnoses"
           \notin ShownWarnings \cup DocumentNotes

\* C19 witness: a flat signal was diagnosed as an infarction, and the run
\* ended with a document for a report with the ST segment "Elevation".
C19_Witness ==
    /\ pc = "done"
    /\ image = "flat"
    /\ report["Diagnosis"] = "Myocardial Infarction"
    /\ report["ST Segment"] = "Elevation"
    /\ report["Validation Warnings"] = <<>>
    /\ ~document.notes.present

\* C20: every report of process_ecg_image has the Affected Leads ["II"] and
\* an MI Type of "N/A" or "Undetermined Type", never a named territory, and
\* Section III of its document marks lead II and no other lead "Abnormal".
C20_OnlyLeadII ==
    /\ HasReport =>
           /\ report["Affected Leads"] = <<"II">>
           /\ report["MI Type"] \in {"N/A", "Undetermined Type"}
           /\ report["MI Type"] \notin {_MI_TYPES[i].name : i \in DOMAIN _MI_TYPES}
    /\ pc = "done" =>
           \A i \in DOMAIN document.sections[3].rows :
               LET row == document.sections[3].rows[i]
               IN  row[4] = IF row[1] = "II" THEN "Abnormal" ELSE "Normal"

\* C20 witness: an infarction on an elevated signal was reported with the
\* type "Undetermined Type" and rendered with lead II abnormal.
C20_Witness ==
    /\ pc = "done"
    /\ image = "elevated"
    /\ report["Diagnosis"] = "Myocardial Infarction"
    /\ report["MI Type"] = "Undetermined Type"
    /\ document.sections[3].rows[2][1] = "II"
    /\ document.sections[3].rows[2][4] = "Abnormal"
    /\ document.sections[3].rows[3][4] = "Normal"

\* C21: in every report of process_ecg_image the ST Segment follows from
\* the Diagnosis alone, whatever the flags of the ST analysis: "Elevation"
\* exactly for "Myocardial Infarction", "Depression" exactly for "ST
\* Depression" and "Normal" for every other diagnosis, "ST Elevation"
\* included; the ST entry of the Lead II Detail equals the ST Segment.
C21_STSegmentFromDiagnosis ==
    HasReport =>
        /\ report["ST Segment"] \in {"Elevation", "Depression", "Normal"}
        /\ report["ST Segment"] = "Elevation"
               <=> report["Diagnosis"] = "Myocardial Infarction"
        /\ report["ST Segment"] = "Depression"
               <=> report["Diagnosis"] = "ST Depression"
        /\ report["Lead II Detail"].ST_segment_lead_II = report["ST Segment"]

\* C21 witness: a signal whose analysis flags an elevation was diagnosed
\* "ST Elevation" and its report has the ST Segment "Normal".
C21_Witness ==
    /\ pc = "return"
    /\ st_analysis.elevation
    /\ report["Diagnosis"] = "ST Elevation"
    /\ report["ST Segment"] = "Normal"
    /\ report["Lead II Detail"].ST_segment_lead_II = "Normal"

-----------------------------------------------------------------------------
(* Properties of generate_pdf_report (SpecRender).                         *)

Rendered == pc = "render_call" /\ Len(ret) >= 1

\* C11: Section III of the rendered document has exactly 12 rows, one per
\* lead in the order I, II, III, aVR, aVL, aVF, V1..V6, whatever the report
\* holds; the morphology of a row is "Abnormal" exactly when its lead is in
\* the report's Affected Leads and "Normal" otherwise, and an affected lead
\* outside the 12 adds no row.
C11_TwelveLeadRows ==
    Rendered =>
        LET rows == document.sections[3].rows
            canonical == <<"I", "II", "III", "aVR", "aVL", "aVF",
                           "V1", "V2", "V3", "V4", "V5", "V6">>
        IN  /\ document.sections[3].heading = "III. Lead-Wise Analysis Summary"
            /\ Len(rows) = 12
            /\ \A i \in 1..12 :
                   /\ rows[i][1] = canonical[i]
                   /\ rows[i][4] \in {"Abnormal", "Normal"}
                   /\ rows[i][4] = "Abnormal" <=>
                          \E j \in DOMAIN arg["Affected Leads"] :
                              arg["Affected Leads"][j] = canonical[i]

\* C11 witness: a report whose affected leads are II and V4R was rendered
\* into 12 rows with lead II as the only abnormal one.
C11_Witness ==
    /\ Rendered
    /\ arg["Affected Leads"] = <<"II", "V4R">>
    /\ Len(document.sections[3].rows) = 12
    /\ {i \in 1..12 : document.sections[3].rows[i][4] = "Abnormal"} = {2}

\* C12: the trailing warnings block is in the document exactly when the
\* report's Validation Warnings is not empty; it then has one line per
\* warning, in the order of the list, each the text of the warning after
\* the prefix "- ", and no other line.
C12_WarningsBlock ==
    Rendered =>
        LET warnings == arg["Validation Warnings"]
        IN  /\ document.notes.present <=> Len(warnings) > 0
            /\ document.notes.present =>
                   /\ Len(document.notes.lines) = Len(warnings)
                   /\ \A i \in 1..Len(warnings) :
                          document.notes.lines[i] = <<"- ", warnings[i]>>

\* C12 witness: a report with the three warnings of the validator was
\* rendered with a block of three lines.
C12_Witness ==
    /\ Rendered
    /\ arg["Validation Warnings"] =
           <<TachycardiaWarning, IrregularWarning, MIWarning>>
    /\ document.notes.present
    /\ Len(document.notes.lines) = 3

-----------------------------------------------------------------------------
(* Properties of the objects of successive runs (SpecHeap).                *)

\* The report dict with the lists and the dict it refers to.
ObjectsOf(r) == {r, arg[r].affected, arg[r].warnings, arg[r].detail}

\* C17: across runs and renderings the static tables keep their contents,
\* and no list or dict belongs to the reports of two runs or to a report
\* and a table: each report has its own Affected Leads list, its own
\* warnings list and its own Lead II dict.
C17_NoSharedObjects ==
    /\ SubSeq(arg, 1, Len(StaticObjects)) = StaticObjects
    /\ \A i \in DOMAIN ret :
           /\ ObjectsOf(ret[i]) \cap (1..Len(StaticObjects)) = {}
           /\ Cardinality(ObjectsOf(ret[i])) = 4
           /\ \A j \in DOMAIN ret :
                  i # j => ObjectsOf(ret[i]) \cap ObjectsOf(ret[j]) = {}

\* C17 witness: two reports with equal Affected Leads contents, held in two
\* different lists, after the second was rendered.
C17_Witness ==
    /\ pc = "heap_idle"
    /\ Len(ret) = 2
    /\ arg[arg[ret[1]].affected] = <<"II">>
    /\ arg[arg[ret[2]].affected] = <<"II">>
    /\ arg[ret[1]].affected # arg[ret[2]].affected
    /\ arg[ret[1]].warnings # arg[ret[2]].warnings

-----------------------------------------------------------------------------
(* Properties of extract_metadata (SpecExtract).                           *)

Extracted == pc = "extract_done" /\ ~ret.raised

\* C18: the text extract_metadata returns holds only letters, digits,
\* whitespace and / \ . , - and has no two adjacent whitespace characters;
\* it is the OCR text without its other characters in which, of every
\* maximal run of whitespace, only the first character is left; the same
\* clean-up applied to the returned text returns it unchanged.
C18_CleanMetadata ==
    Extracted =>
        LET out   == ret.value
            space == {" ", "\t", "\n", "\r", "\f"}
            other == {"#", "@"}
            kept  == SelectSeq(arg.text, LAMBDA c : c \notin other)
            first == {i \in DOMAIN kept :
                         kept[i] \in space => (i = 1 \/ kept[i - 1] \notin space)}
            Rank(i) == Cardinality({j \in first : j <= i})
        IN  /\ \A i \in DOMAIN out :
                   out[i] \in {"a", "7", "-", "\\"} \cup space
            /\ \A i \in 1..(Len(out) - 1) :
                   ~(out[i] \in space /\ out[i + 1] \in space)
            /\ Len(out) = Cardinality(first)
            /\ \A i \in first : out[Rank(i)] = kept[i]
            /\ FormatMetadata(out) = out

\* C18 witness: a text with a run of a newline and a blank around a removed
\* character came back with the newline alone.
C18_Witness ==
    /\ Extracted
    /\ arg.text = <<"a", "\n", "#", " ">>
    /\ ret.value = <<"a", "\n">>

-----------------------------------------------------------------------------
(* Properties of the live-stream loop (SpecStream).                        *)

\* C22: after every pass of the stream loop the buffer ecg_data_points
\* holds at most 600 points, namely the points generated last in the order
\* of their generation (the oldest leaves first once 600 are held), and
\* the time index is 5 ms times the number of points generated.
C22_BufferHoldsLatest ==
    pc \in {"stream_loop", "stream_done"} =>
        LET buffer  == arg.ecg_data_points
            dropped == Len(ret) - Len(buffer)
        IN  /\ Len(buffer) <= 600
            /\ Len(buffer) = IF Len(ret) < 600 THEN Len(ret) ELSE 600
            /\ \A i \in 1..Len(buffer) : buffer[i] = ret[dropped + i]
            /\ arg.time_index = 5 * Len(ret)

\* C22 witness: 602 points were generated; the buffer holds 600 of them and
\* begins with the third.
C22_Witness ==
    /\ pc = "stream_loop"
    /\ Len(ret) = 602
    /\ Len(arg.ecg_data_points) = 600
    /\ arg.ecg_data_points[1] = ret[3]
    /\ ret[1] # ret[3]
    /\ arg.time_index = 3010

=============================================================================
